---- MODULE Spec2Model ----
(***************************************************************************)
(* Model of the Neptune Apex client (neptune-apex/src/lib.rs): the session *)
(* credential, the login operation `auth`, the authenticated request loop  *)
(* `request`, and its two callers `status` and `feed`.                     *)
(*                                                                         *)
(* One client instance is modelled.  Every `.await` on the HTTP client is  *)
(* one step; the device and the transport are the environment and choose   *)
(* every response (status, body, length, transport failure).               *)
(***************************************************************************)
EXTENDS Integers, Sequences, FiniteSets, TLC

\* ---------------------------------------------------------------- bounds
MaxCalls == 2       \* calls to status/feed made on the client
MaxTokens == 2      \* distinct session tokens the device can hand out
MaxCap == 2         \* largest capacity of the caller's rx_buf
MaxLen == 2         \* largest body length the device sends
MaxFeedCode == 257  \* feed codes 0..MaxFeedCode are tried for decoding

\* ------------------------------------------------------- program constants
LoopIterationsMut == 2 + 1
LoopIterations == 2     \* `for _ in 0..2`
Forbidden == 403        \* response::Status::Forbidden

NoSession == 0          \* session_id == None
Tokens == 1..MaxTokens  \* session_id == Some(t)

\* Status codes the device answers with.
StatusCodes == {200, 204, 401, 403, 404, 500}

\* StatusCode::is_successful (2xx)
IsSuccessfulMut(s) == s # Forbidden
IsSuccessful(s) == s >= 200 /\ s < 300

\* `status == response::Status::Forbidden`
IsForbiddenMut(s) == s \in {401, Forbidden}
IsForbidden(s) == s = Forbidden

\* `alloc::format!("connect.sid={session_id}")`: the cookie names the
\* stored session.
CookieMut(sid) == NoSession
Cookie(sid) == sid

\* The 403 branch assigns nothing to self.session_id before calling auth.
AfterForbiddenMut(sid) == NoSession
AfterForbidden(sid) == sid

\* ------------------------------------------------------------------ Feed
FeedVariants == {"Cancel", "A", "B", "C", "D", "None"}

\* `feed as u32` / Serialize_repr
FeedCode(f) ==
  CASE f = "Cancel" -> 0
    [] f = "A" -> 1
    [] f = "B" -> 2
    [] f = "C" -> 3
    [] f = "D" -> 4
    [] f = "None" -> 256

\* Deserialize_repr: the variant of a code, "" when the code names none.
FeedFromCodeMut(c) ==
  IF \E f \in FeedVariants : FeedCode(f) = c
  THEN CHOOSE f \in FeedVariants : FeedCode(f) = c
  ELSE "None"
FeedFromCode(c) ==
  IF \E f \in FeedVariants : FeedCode(f) = c
  THEN CHOOSE f \in FeedVariants : FeedCode(f) = c
  ELSE ""

\* ------------------------------------------------------- response bodies
\* A body is either not JSON at all or a JSON object, given as its set of
\* fields; a field has a key, a JSON type and (for the fields the client
\* reads) a value.
Field(k, ty, v) == [k |-> k, ty |-> ty, v |-> v]
Garbage == [json |-> FALSE, obj |-> {}]
Object(fields) == [json |-> TRUE, obj |-> fields]

HasField(b, k, ty) == b.json /\ \E f \in b.obj : f.k = k /\ f.ty = ty
FieldValue(b, k) == (CHOOSE f \in b.obj : f.k = k).v

SidBody(t) == Object({Field("connect.sid", "str", t)})
SidNumBody == Object({Field("connect.sid", "num", 1)})
StatusBody ==
  Object({Field("system", "obj", 0), Field("modules", "arr", 0),
          Field("feed", "obj", 0), Field("power", "obj", 0),
          Field("outputs", "arr", 0), Field("inputs", "arr", 0)})
FeedBody(code) ==
  Object({Field("name", "num", code), Field("active", "num", 1),
          Field("error_code", "num", 0), Field("error_message", "str", 0)})

\* Bodies the device may answer with.
Bodies ==
  {Garbage, Object({}), SidNumBody, StatusBody, FeedBody(1), FeedBody(5)}
    \cup {SidBody(t) : t \in Tokens}

\* serde_json::from_slice::<AuthResponse>
AuthResponseOk(b) == HasField(b, "connect.sid", "str")
AuthResponseSid(b) == FieldValue(b, "connect.sid")

\* serde_json::from_slice::<Status>
StatusOk(b) ==
  /\ HasField(b, "system", "obj") /\ HasField(b, "modules", "arr")
  /\ HasField(b, "feed", "obj") /\ HasField(b, "power", "obj")
  /\ HasField(b, "outputs", "arr") /\ HasField(b, "inputs", "arr")

\* serde_json::from_slice::<FeedRequestResponse>
FeedResponseOkMut(b) == b.json
FeedResponseOk(b) ==
  /\ HasField(b, "name", "num") /\ FeedFromCode(FieldValue(b, "name")) # ""
  /\ HasField(b, "active", "num") /\ HasField(b, "error_code", "num")
  /\ HasField(b, "error_message", "str")

\* ---------------------------------------------------------------- results
\* What a call ends with: Ok, one variant of `Error` (Http carries the
\* status, Request the reqwless error), or the panic of an `unwrap()`,
\* whose payload is the reqwless error.
NoResult == [kind |-> "None", code |-> 0, err |-> ""]
Ok == [kind |-> "Ok", code |-> 0, err |-> ""]
ErrAuthentication == [kind |-> "Authentication", code |-> 0, err |-> ""]
ErrHttp(s) == [kind |-> "Http", code |-> s, err |-> ""]
ErrRequest(e) == [kind |-> "Request", code |-> 0, err |-> e]
ErrJson == [kind |-> "Json", code |-> 0, err |-> ""]
Panicked(e) == [kind |-> "Panic", code |-> 0, err |-> e]

\* ------------------------------------------------------------------ state
VARIABLES
  session_id,   \* Apex.session_id: NoSession or a token
  pc,           \* where the client is inside status/feed -> request -> auth
  op,           \* the operation being run: "status" or "feed"
  feed,         \* the Feed argument of a feed call
  cap,          \* capacity of the rx_buf passed by the caller
  iter,         \* loop bodies of `for _ in 0..2` started in this call
  cause,        \* why auth is running: "missing" (None) or "forbidden" (403)
  auths,        \* calls of `auth` made during this call
  log,          \* network requests sent during this call, oldest first
  rx_buf,       \* body last read into the caller's buffer
  reqResult,    \* what `request` returned in this call
  result,       \* what status/feed returned
  calls         \* calls made so far

vars == <<session_id, pc, op, feed, cap, iter, cause, auths, log, rx_buf,
          reqResult, result, calls>>

\* A request on the wire: its kind, method and path, the Cookie header
\* it carries (NoSession when it has none), the credential stored when it
\* was sent, the status it was answered with (0 while unanswered or
\* failed), and the body once read_to_end has delivered it.
Entry(kind, method, path, cookie, stored) ==
  [kind |-> kind, method |-> method, path |-> path, cookie |-> cookie,
   stored |-> stored, status |-> 0, read |-> FALSE, body |-> Garbage]

\* Paths are a fixed text followed by a feed code, -1 when there is none.
LoginPath == <<"rest/login", -1>>

\* status: GET rest/status; feed: PUT rest/status/feed/{feed as u32}.
MethodOf(o) == IF o = "status" THEN "GET" ELSE "PUT"
PathOf(o, f) ==
  IF o = "status" THEN <<"rest/status", -1>>
  ELSE <<"rest/status/feed/", FeedCode(f)>>

Answered(s) == [log EXCEPT ![Len(log)].status = s]
Delivered(b) == [log EXCEPT ![Len(log)].read = TRUE, ![Len(log)].body = b]

\* Apex::new: session_id is the optional saved session of the caller.
Init ==
  /\ session_id \in {NoSession} \cup Tokens
  /\ pc = "idle"
  /\ op = "status"
  /\ feed = "Cancel"
  /\ cap = 1
  /\ iter = 0
  /\ cause = "missing"
  /\ auths = 0
  /\ log = <<>>
  /\ rx_buf = Garbage
  /\ reqResult = NoResult
  /\ result = NoResult
  /\ calls = 0

\* `request` returns Err(e); status and feed pass it on with `?`.
ReturnErr(e) ==
  /\ pc' = "idle"
  /\ reqResult' = e
  /\ result' = e

\* `.unwrap()` on an Err: the call does not return.
Panic(e) ==
  /\ pc' = "panicked"
  /\ result' = Panicked(e)
  /\ UNCHANGED reqResult

\* status(rx_buf) / feed(rx_buf, feed): enter `request`.
Call ==
  /\ pc = "idle"
  /\ calls < MaxCalls
  /\ \E o \in {"status", "feed"}, f \in FeedVariants, c \in 1..MaxCap :
       /\ op' = o
       /\ feed' = IF o = "feed" THEN f ELSE feed
       /\ cap' = c
  /\ calls' = calls + 1
  /\ iter' = 0
  /\ auths' = 0
  /\ log' = <<>>
  /\ reqResult' = NoResult
  /\ result' = NoResult
  /\ pc' = "loop"
  /\ UNCHANGED <<session_id, cause, rx_buf>>

\* Head of `for _ in 0..2` and the `let Some(session_id) = ... else`.
LoopStep ==
  /\ pc = "loop"
  /\ IF iter >= LoopIterations
     THEN /\ ReturnErr(ErrAuthentication)
          /\ UNCHANGED <<iter, cause, auths>>
     ELSE /\ iter' = iter + 1
          /\ IF session_id = NoSession
             THEN /\ pc' = "auth_connect"
                  /\ cause' = "missing"
                  /\ auths' = auths + 1
             ELSE /\ pc' = "req_connect"
                  /\ UNCHANGED <<cause, auths>>
          /\ UNCHANGED <<reqResult, result>>
  /\ UNCHANGED <<session_id, op, feed, cap, log, rx_buf, calls>>

\* auth: `self.client.request(Method::POST, url).await?`
AuthConnect ==
  /\ pc = "auth_connect"
  /\ \E ok \in BOOLEAN :
       IF ok THEN pc' = "auth_send" /\ UNCHANGED <<reqResult, result>>
       ELSE ReturnErr(ErrRequest("Network"))
  /\ UNCHANGED <<session_id, op, feed, cap, iter, cause, auths, log, rx_buf,
                 calls>>

\* auth: `requset.send(rx_buf)` puts POST rest/login on the wire; the
\* headers are Accept only.
AuthSend ==
  /\ pc = "auth_send"
  /\ log' = Append(log, Entry("login", "POST", LoginPath, NoSession, session_id))
  /\ pc' = "auth_recv"
  /\ UNCHANGED <<session_id, op, feed, cap, iter, cause, auths, rx_buf,
                 reqResult, result, calls>>

\* auth: `.send(rx_buf).await?` completes and the status is tested.
AuthRecv ==
  /\ pc = "auth_recv"
  /\ \/ /\ ReturnErr(ErrRequest("Network"))
        /\ UNCHANGED log
     \/ \E s \in StatusCodes :
          /\ log' = Answered(s)
          /\ IF IsSuccessful(s)
             THEN pc' = "auth_read" /\ UNCHANGED <<reqResult, result>>
             ELSE ReturnErr(ErrHttp(s))
  /\ UNCHANGED <<session_id, op, feed, cap, iter, cause, auths, rx_buf,
                 calls>>

\* auth: `read_to_end().await?`, `from_slice(..)?`, `self.session_id =
\* Some(..)`, `Ok(())`; in `request`, `continue`.
AuthRead ==
  /\ pc = "auth_read"
  /\ \/ /\ ReturnErr(ErrRequest("Network"))
        /\ UNCHANGED <<session_id, rx_buf, log>>
     \/ \E b \in Bodies, n \in 0..MaxLen :
          IF n > cap
          THEN /\ ReturnErr(ErrRequest("BufferTooSmall"))
               /\ UNCHANGED <<session_id, rx_buf, log>>
          ELSE /\ rx_buf' = b
               /\ log' = Delivered(b)
               /\ IF AuthResponseOk(b)
                  THEN /\ session_id' = AuthResponseSid(b)
                       /\ pc' = "loop"
                       /\ UNCHANGED <<reqResult, result>>
                  ELSE /\ ReturnErr(ErrJson)
                       /\ UNCHANGED session_id
  /\ UNCHANGED <<op, feed, cap, iter, cause, auths, calls>>

\* request: `self.client.request(method, url).await.unwrap()`
ReqConnect ==
  /\ pc = "req_connect"
  /\ \E ok \in BOOLEAN :
       IF ok THEN pc' = "req_send" /\ UNCHANGED <<reqResult, result>>
       ELSE Panic("Network")
  /\ UNCHANGED <<session_id, op, feed, cap, iter, cause, auths, log, rx_buf,
                 calls>>

\* request: `request.send(rx_buf)` puts the caller's request on the wire
\* with `Cookie: connect.sid={session_id}`.
ReqSend ==
  /\ pc = "req_send"
  /\ log' = Append(log, Entry("req", MethodOf(op), PathOf(op, feed),
                             Cookie(session_id), session_id))
  /\ pc' = "req_recv"
  /\ UNCHANGED <<session_id, op, feed, cap, iter, cause, auths, rx_buf,
                 reqResult, result, calls>>

\* request: `.send(rx_buf).await.unwrap()` completes; the status decides.
ReqRecv ==
  /\ pc = "req_recv"
  /\ \/ /\ Panic("Network")
        /\ UNCHANGED <<log, cause, auths, session_id>>
     \/ \E s \in StatusCodes :
          /\ log' = Answered(s)
          /\ IF IsSuccessful(s)
             THEN /\ pc' = "req_read"
                  /\ UNCHANGED <<reqResult, result, cause, auths, session_id>>
             ELSE IF IsForbidden(s)
             THEN /\ pc' = "auth_connect"
                  /\ cause' = "forbidden"
                  /\ auths' = auths + 1
                  /\ session_id' = AfterForbidden(session_id)
                  /\ UNCHANGED <<reqResult, result>>
             ELSE /\ ReturnErr(ErrHttp(s))
                  /\ UNCHANGED <<cause, auths, session_id>>
  /\ UNCHANGED <<op, feed, cap, iter, rx_buf, calls>>

\* request: `response.body().read_to_end().await.unwrap()` and
\* `return Ok(&rx_buf[..response_len])`.
ReqRead ==
  /\ pc = "req_read"
  /\ \/ /\ Panic("Network")
        /\ UNCHANGED <<rx_buf, log>>
     \/ \E b \in Bodies, n \in 0..MaxLen :
          IF n > cap
          THEN /\ Panic("BufferTooSmall")
               /\ UNCHANGED <<rx_buf, log>>
          ELSE /\ rx_buf' = b
               /\ log' = Delivered(b)
               /\ reqResult' = Ok
               /\ pc' = "decode"
               /\ UNCHANGED result
  /\ UNCHANGED <<session_id, op, feed, cap, iter, cause, auths, calls>>

\* status: `serde_json::from_slice(data)?`; feed: the same for the echoed
\* FeedRequestResponse.
Decode ==
  /\ pc = "decode"
  /\ result' = IF op = "status"
               THEN (IF StatusOk(rx_buf) THEN Ok ELSE ErrJson)
               ELSE (IF FeedResponseOk(rx_buf) THEN Ok ELSE ErrJson)
  /\ pc' = "idle"
  /\ UNCHANGED <<session_id, op, feed, cap, iter, cause, auths, log, rx_buf,
                 reqResult, calls>>

Next ==
  \/ Call
  \/ LoopStep
  \/ AuthConnect
  \/ AuthSend
  \/ AuthRecv
  \/ AuthRead
  \/ ReqConnect
  \/ ReqSend
  \/ ReqRecv
  \/ ReqRead
  \/ Decode

Spec == Init /\ [][Next]_vars

\* The steps of a call in progress: every await of the call is polled
\* until it completes, so a call that can take a step eventually takes one.
\* Whether the caller makes another call is left open.
Step ==
  \/ LoopStep
  \/ AuthConnect
  \/ AuthSend
  \/ AuthRecv
  \/ AuthRead
  \/ ReqConnect
  \/ ReqSend
  \/ ReqRecv
  \/ ReqRead
  \/ Decode

FairSpec == Spec /\ WF_vars(Step)

TypeOK ==
  /\ session_id \in {NoSession} \cup Tokens
  /\ pc \in {"idle", "loop", "auth_connect", "auth_send", "auth_recv",
             "auth_read", "req_connect", "req_send", "req_recv", "req_read",
             "decode", "panicked"}
  /\ op \in {"status", "feed"}
  /\ feed \in FeedVariants
  /\ iter \in 0..LoopIterations
  /\ auths \in 0..LoopIterations
  /\ calls \in 0..MaxCalls

\* ------------------------------------------------------ claim vocabulary
Is2xx(s) == s \in 200..299
Logins == {i \in 1..Len(log) : log[i].kind = "login"}
Requests == {i \in 1..Len(log) : log[i].kind = "req"}
AuthPcs == {"auth_connect", "auth_send", "auth_recv", "auth_read"}
Returned == pc = "idle" /\ calls > 0

\* C1 (as stated): one call of `request` makes at most two network
\* round-trips, logins and authenticated requests counted together.
C1_AtMostTwoRoundTrips == Len(log) <= 2

\* C1 (amended): one call of `request` makes at most four network
\* round-trips, at most two of them logins and at most two authenticated
\* requests; a second round-trip happens only when the first was a login
\* caused by an absent credential or an authenticated request answered 403.
C1_AtMostFourRoundTrips ==
  /\ Len(log) <= 4
  /\ Cardinality(Logins) <= 2
  /\ Cardinality(Requests) <= 2
  /\ Len(log) >= 2 =>
       \/ log[1].kind = "login" /\ log[1].stored = NoSession
       \/ log[1].kind = "req" /\ log[1].status = 403

C1_Witness ==
  /\ Len(log) = 4
  /\ log[1].kind = "req" /\ log[1].status = 403
  /\ Returned

\* C2 (as stated): one call of `request` invokes `auth` at most once.
C2_AuthAtMostOnce == auths <= 1

\* C2 (amended): one call of `request` invokes `auth` at most twice, and
\* at most once in each loop iteration it has started.
C2_AuthOncePerIteration ==
  /\ auths <= 2
  /\ auths <= iter
  /\ Cardinality(Logins) <= auths

C2_Witness == auths = 2 /\ Cardinality(Logins) = 2 /\ Returned

\* C3 (as stated): after an authenticated attempt is answered 403 the
\* stored credential is absent before any further request is issued, so
\* every request sent right after a 403 is sent with no credential stored.
C3_ClearedBeforeNextRequest ==
  \A i \in 2..Len(log) :
    (log[i - 1].kind = "req" /\ log[i - 1].status = 403)
      => log[i].stored = NoSession

\* C3 (amended): after an authenticated attempt is answered 403 the stored
\* credential is left as it was: the next request issued in that call is a
\* login carrying no cookie, sent while the rejected token is still the
\* stored credential.
C3_KeptUntilLogin ==
  /\ \A i \in 2..Len(log) :
       (log[i - 1].kind = "req" /\ log[i - 1].status = 403)
         => /\ log[i].kind = "login"
            /\ log[i].cookie = NoSession
            /\ log[i].stored = log[i - 1].cookie
            /\ log[i].stored # NoSession
  /\ (pc \in {"auth_connect", "auth_send"} /\ cause = "forbidden")
       => (session_id # NoSession /\ session_id = log[Len(log)].cookie)

C3_Witness ==
  /\ Len(log) >= 2
  /\ log[1].kind = "req" /\ log[1].status = 403
  /\ log[2].kind = "login" /\ log[2].stored = log[1].cookie

\* C4 (as stated): a call that returns the authentication-exhausted error
\* leaves the stored credential absent.
C4_ExhaustedLeavesNoCredential ==
  (Returned /\ reqResult.kind = "Authentication") => session_id = NoSession

\* C4 (amended): a call that uses up both loop iterations without a 2xx
\* answer to an authenticated request returns Error::Authentication, and
\* the stored credential is then present: it is the token of the login that
\* ended the second iteration.
C4_ExhaustedInv ==
  (Returned /\ reqResult.kind = "Authentication")
    => /\ result = ErrAuthentication
       /\ iter = 2
       /\ \A i \in Requests : ~Is2xx(log[i].status)
       /\ log[Len(log)].kind = "login"
       /\ Is2xx(log[Len(log)].status)
       /\ HasField(log[Len(log)].body, "connect.sid", "str")
       /\ session_id # NoSession
       /\ session_id = FieldValue(log[Len(log)].body, "connect.sid")

C4_ExhaustedStep ==
  (pc = "loop" /\ iter = 2)
    => (pc' = "idle" /\ reqResult' = ErrAuthentication /\ UNCHANGED session_id)

C4_Exhausted == []C4_ExhaustedInv /\ [][C4_ExhaustedStep]_vars

C4_Witness ==
  /\ Returned
  /\ reqResult = ErrAuthentication
  /\ session_id # NoSession
  /\ log[1].kind = "login"

\* C5: an authenticated attempt answered with a status that is neither 2xx
\* nor 403 ends the call with Error::Http of exactly that status, and it is
\* the last request of the call.
C5_HttpErrorImmediate ==
  \A i \in Requests :
    (log[i].status # 0 /\ ~Is2xx(log[i].status) /\ log[i].status # 403)
      => /\ i = Len(log)
         /\ pc = "idle"
         /\ reqResult = ErrHttp(log[i].status)
         /\ result = reqResult

C5_Witness ==
  /\ Returned
  /\ Len(log) = 3
  /\ log[3].kind = "req" /\ log[3].status = 401
  /\ reqResult = ErrHttp(401)

\* C6: whenever `auth` has returned Ok, the login it sent was answered 2xx
\* with a body holding a string field `connect.sid`, and the stored
\* credential is present and equal to that field.
C6_AuthOkStoresSid ==
  (pc = "loop" /\ auths > 0)
    => LET e == log[Len(log)] IN
         /\ e.kind = "login"
         /\ Is2xx(e.status)
         /\ e.read
         /\ HasField(e.body, "connect.sid", "str")
         /\ session_id # NoSession
         /\ session_id = FieldValue(e.body, "connect.sid")

C6_Witness ==
  /\ pc = "loop"
  /\ auths = 1
  /\ cause = "forbidden"
  /\ session_id # log[1].cookie
  /\ session_id = FieldValue(log[2].body, "connect.sid")

\* C7: a login that fails inside `request` ends the call at once with the
\* login's own error: Error::Http of the login's status when the login is
\* answered non-2xx, Error::Json when its body does not decode,
\* Error::Request on a transport failure; never Error::Authentication, and
\* nothing more is sent.
C7_Step ==
  /\ pc \in AuthPcs =>
       \/ pc' \in AuthPcs
       \/ pc' = "loop" /\ session_id' # NoSession
       \/ /\ pc' = "idle"
          /\ reqResult'.kind \in {"Http", "Json", "Request"}
          /\ result' = reqResult'
          /\ Len(log') = Len(log)
          /\ UNCHANGED session_id
  /\ (pc = "auth_recv" /\ log'[Len(log')].status # 0
        /\ ~Is2xx(log'[Len(log')].status))
       => (pc' = "idle" /\ reqResult' = ErrHttp(log'[Len(log')].status))
  /\ (pc = "auth_read" /\ log'[Len(log')].read
        /\ ~HasField(log'[Len(log')].body, "connect.sid", "str"))
       => (pc' = "idle" /\ reqResult' = ErrJson)

C7_LoginFailurePropagates == [][C7_Step]_vars

C7_Witness ==
  /\ Returned
  /\ cause = "forbidden"
  /\ Len(log) = 2
  /\ log[2].kind = "login" /\ log[2].status = 500
  /\ reqResult = ErrHttp(500)

\* C8 (as stated): a transport failure during an authenticated attempt
\* (connect, send or body read) makes the call return Error::Request.
C8_Step ==
  (pc \in {"req_connect", "req_recv", "req_read"} /\ result'.err = "Network")
    => (pc' = "idle" /\ reqResult' = ErrRequest("Network")
        /\ result' = reqResult')

C8_TransportErrorReturned == [][C8_Step]_vars

\* C9 (as stated): when the response of an authenticated request does not
\* fit the caller's buffer, the call returns an explicit error.
C9_OverflowReturnsError ==
  (result.err = "BufferTooSmall" /\ Len(log) > 0
     /\ log[Len(log)].kind = "req")
    => (pc = "idle" /\ reqResult.kind = "Request" /\ result = reqResult)

\* C10: with no credential stored, a login answered 2xx with token t and
\* then a status request answered 2xx make `request` return Ok after
\* exactly two round-trips, POST rest/login first and then GET rest/status
\* with cookie connect.sid=t; t is the credential stored afterwards, and
\* `status` returns Ok when the body is a status document.
C10_ColdStart ==
  (/\ op = "status"
   /\ Len(log) >= 2
   /\ log[1].kind = "login" /\ log[1].stored = NoSession
   /\ Is2xx(log[1].status) /\ log[1].read
   /\ HasField(log[1].body, "connect.sid", "str")
   /\ Is2xx(log[2].status) /\ log[2].read)
    => LET t == FieldValue(log[1].body, "connect.sid") IN
         /\ Len(log) = 2
         /\ log[1].method = "POST" /\ log[1].path = <<"rest/login", -1>>
         /\ log[1].cookie = NoSession
         /\ log[2].kind = "req"
         /\ log[2].method = "GET" /\ log[2].path = <<"rest/status", -1>>
         /\ log[2].cookie = t
         /\ session_id = t
         /\ reqResult = Ok
         /\ pc \in {"decode", "idle"}
         /\ (pc = "idle" /\ StatusOk(log[2].body)) => result = Ok

C10_Witness ==
  /\ Returned
  /\ op = "status"
  /\ result = Ok
  /\ Len(log) = 2
  /\ log[1].kind = "login" /\ log[1].stored = NoSession
  /\ log[2].cookie = 2
  /\ session_id = 2

\* The echoed feed confirmation decodes: four fields of the right JSON
\* types and a `name` that is one of the six feed codes.
EchoDecodes(b) ==
  /\ HasField(b, "name", "num")
  /\ FieldValue(b, "name") \in {0, 1, 2, 3, 4, 256}
  /\ HasField(b, "active", "num")
  /\ HasField(b, "error_code", "num")
  /\ HasField(b, "error_message", "str")

\* C11: with a stored credential the device rejects, a feed request
\* answered 403, then a login answered 2xx with token f, then the retried
\* request answered 2xx make `request` return Ok after exactly three
\* round-trips in that order, the retry carrying cookie connect.sid=f, all
\* within the two loop iterations; `feed` returns Ok when the echoed body
\* decodes.
C11_ExpiredSession ==
  (/\ op = "feed"
   /\ Len(log) >= 3
   /\ log[1].kind = "req" /\ log[1].status = 403
   /\ log[2].kind = "login" /\ Is2xx(log[2].status) /\ log[2].read
   /\ HasField(log[2].body, "connect.sid", "str")
   /\ Is2xx(log[3].status) /\ log[3].read)
    => LET f == FieldValue(log[2].body, "connect.sid") IN
         /\ Len(log) = 3
         /\ log[1].method = "PUT" /\ log[1].cookie # NoSession
         /\ log[2].method = "POST" /\ log[2].path = <<"rest/login", -1>>
         /\ log[2].cookie = NoSession
         /\ log[3].kind = "req" /\ log[3].method = "PUT"
         /\ log[3].path = log[1].path
         /\ log[3].path[1] = "rest/status/feed/"
         /\ log[3].cookie = f
         /\ session_id = f
         /\ iter = 2
         /\ reqResult = Ok
         /\ pc \in {"decode", "idle"}
         /\ (pc = "idle" /\ EchoDecodes(log[3].body)) => result = Ok

C11_Witness ==
  /\ Returned
  /\ op = "feed" /\ feed = "A"
  /\ result = Ok
  /\ Len(log) = 3
  /\ log[1].kind = "req" /\ log[1].status = 403 /\ log[1].cookie = 1
  /\ log[3].cookie = 2 /\ log[3].path = <<"rest/status/feed/", 1>>

\* C12: each of the six Feed variants maps to its code (Cancel=0, A=1,
\* B=2, C=3, D=4, None=256) and that code maps back to the same variant;
\* the code-to-variant mapping is injective on the six codes and rejects
\* every other code.  A feed request carries the code of its variant, and
\* an echoed body whose `name` is no feed code fails to decode.
C12_FeedRoundTrip ==
  /\ FeedCode("Cancel") = 0 /\ FeedCode("A") = 1 /\ FeedCode("B") = 2
  /\ FeedCode("C") = 3 /\ FeedCode("D") = 4 /\ FeedCode("None") = 256
  /\ \A f \in {"Cancel", "A", "B", "C", "D", "None"} :
       FeedFromCode(FeedCode(f)) = f
  /\ \A c, d \in {0, 1, 2, 3, 4, 256} :
       FeedFromCode(c) = FeedFromCode(d) => c = d
  /\ (pc = "decode" /\ op = "feed") =>
       \A c \in 0..MaxFeedCode :
         c \notin {0, 1, 2, 3, 4, 256} => FeedFromCode(c) = ""
  /\ \A i \in Requests :
       op = "feed" => FeedFromCode(log[i].path[2]) = feed
  /\ (/\ Returned /\ op = "feed" /\ reqResult = Ok
      /\ HasField(rx_buf, "name", "num")
      /\ FieldValue(rx_buf, "name") \notin {0, 1, 2, 3, 4, 256})
       => result = ErrJson

C12_Witness ==
  /\ Returned /\ op = "feed" /\ feed = "None"
  /\ reqResult = Ok
  /\ log[Len(log)].path = <<"rest/status/feed/", 256>>
  /\ HasField(rx_buf, "name", "num") /\ FieldValue(rx_buf, "name") = 5
  /\ result = ErrJson

\* C13: one call of `request` sends the caller's (non-login) request at
\* most twice, and never more often than loop iterations were started.
C13_AtMostTwoRequests ==
  /\ Cardinality(Requests) <= 2
  /\ Cardinality(Requests) <= iter
  /\ \A i \in Requests :
       log[i].method = MethodOf(op) /\ log[i].path = PathOf(op, feed)

C13_Witness ==
  /\ Cardinality(Requests) = 2
  /\ Len(log) = 3
  /\ log[3].kind = "req" /\ log[3].status = 500
  /\ Returned

\* C14: inside one call, an authenticated request that follows a 403 is
\* issued right after a login that completed with success (2xx, body read
\* and decoded), and its cookie is the token that login stored, whatever
\* token the rejected request carried; between the 403 and the end of that
\* login no authenticated request is on the wire.
C14_RetryAfterLogin ==
  /\ \A i, j \in Requests :
       (j < i /\ log[j].status = 403)
         => /\ i = j + 2
            /\ log[j + 1].kind = "login"
            /\ Is2xx(log[j + 1].status)
            /\ log[j + 1].read
            /\ HasField(log[j + 1].body, "connect.sid", "str")
            /\ log[i].cookie = FieldValue(log[j + 1].body, "connect.sid")
            /\ log[i].stored = log[i].cookie
  /\ (pc \in AuthPcs /\ cause = "forbidden")
       => \/ log[Len(log)].kind = "req" /\ log[Len(log)].status = 403
          \/ /\ log[Len(log)].kind = "login"
             /\ log[Len(log) - 1].kind = "req"
             /\ log[Len(log) - 1].status = 403

C14_Witness ==
  /\ Len(log) = 3
  /\ log[1].kind = "req" /\ log[1].status = 403 /\ log[1].cookie = 2
  /\ log[2].kind = "login"
  /\ log[3].kind = "req" /\ log[3].cookie = 1
  /\ pc = "req_recv"

\* A call that started with no credential, logged in with success and had
\* its first authenticated attempt answered 403.
ColdThenForbidden ==
  /\ Len(log) >= 2
  /\ log[1].kind = "login" /\ log[1].stored = NoSession
  /\ Is2xx(log[1].status) /\ log[1].read
  /\ HasField(log[1].body, "connect.sid", "str")
  /\ log[2].kind = "req" /\ log[2].status = 403

\* C15 (as stated): such a call issues no second authenticated attempt and
\* returns Error::Authentication.
C15_ColdForbiddenIsAuthentication ==
  (Returned /\ ColdThenForbidden)
    => (Cardinality(Requests) = 1 /\ reqResult = ErrAuthentication)

\* C15 (amended): such a call issues no second authenticated attempt and
\* does not return success; it issues one more login and returns
\* Error::Authentication exactly when that login succeeds, and that login's
\* own error when it fails.
C15_ColdForbiddenNoRecovery ==
  /\ ColdThenForbidden => (Cardinality(Requests) = 1 /\ reqResult # Ok)
  /\ (Returned /\ ColdThenForbidden)
       => /\ reqResult.kind \in {"Authentication", "Http", "Json", "Request"}
          /\ result = reqResult
          /\ reqResult = ErrAuthentication
               <=> /\ Len(log) = 3
                   /\ log[3].kind = "login"
                   /\ Is2xx(log[3].status) /\ log[3].read
                   /\ HasField(log[3].body, "connect.sid", "str")

C15_Witness ==
  /\ Returned /\ ColdThenForbidden
  /\ Len(log) = 3
  /\ reqResult = ErrAuthentication
  /\ session_id # log[2].cookie

\* The status document decodes: its six top-level members are there.
StatusDecodes(b) ==
  /\ HasField(b, "system", "obj") /\ HasField(b, "modules", "arr")
  /\ HasField(b, "feed", "obj") /\ HasField(b, "power", "obj")
  /\ HasField(b, "outputs", "arr") /\ HasField(b, "inputs", "arr")

ViewDecodes ==
  IF op = "status" THEN StatusDecodes(rx_buf) ELSE EchoDecodes(rx_buf)

\* C16: once `request` has returned Ok, status/feed return Ok exactly when
\* the bytes decode and Error::Json otherwise; the 2xx request stays the
\* last request of the call and the stored credential stays the one that
\* request was sent with.
C16_DecodeInv ==
  (Returned /\ reqResult = Ok)
    => /\ result = IF ViewDecodes THEN Ok ELSE ErrJson
       /\ log[Len(log)].kind = "req"
       /\ Is2xx(log[Len(log)].status)
       /\ log[Len(log)].body = rx_buf
       /\ session_id = log[Len(log)].stored

C16_DecodeStep ==
  pc = "decode"
    => /\ pc' = "idle"
       /\ result'.kind \in {"Ok", "Json"}
       /\ UNCHANGED <<session_id, log, rx_buf, reqResult>>

C16_DecodeFailure == []C16_DecodeInv /\ [][C16_DecodeStep]_vars

C16_Witness ==
  /\ Returned /\ op = "feed"
  /\ reqResult = Ok
  /\ result = ErrJson
  /\ rx_buf.json /\ rx_buf.obj = {}
  /\ Len(log) = 1

\* C17: the stored credential changes only in the step that completes a
\* login with success, and then becomes that login's token; every other
\* step leaves it as it was, and a present credential never becomes absent.
C17_Step ==
  /\ session_id' # session_id
       => /\ pc = "auth_read" /\ pc' = "loop"
          /\ Is2xx(log'[Len(log')].status)
          /\ log'[Len(log')].kind = "login" /\ log'[Len(log')].read
          /\ HasField(log'[Len(log')].body, "connect.sid", "str")
          /\ session_id' = FieldValue(log'[Len(log')].body, "connect.sid")
  /\ session_id # NoSession => session_id' # NoSession

C17_CredentialFrame == [][C17_Step]_vars

C17_Witness ==
  /\ Returned
  /\ Len(log) = 3
  /\ log[1].kind = "req" /\ log[1].status = 403 /\ log[1].stored = 1
  /\ log[3].kind = "req" /\ log[3].status = 500
  /\ session_id = 2

\* C18: whenever `request` has returned Ok a credential is stored, the last
\* request of the call is an authenticated request answered 2xx, and its
\* cookie is the stored credential; every authenticated request carries
\* the credential stored when it is sent, and a login carries no cookie.
C18_CookieIsCredential ==
  /\ reqResult = Ok
       => /\ session_id # NoSession
          /\ log[Len(log)].kind = "req"
          /\ Is2xx(log[Len(log)].status)
          /\ log[Len(log)].read
          /\ log[Len(log)].cookie = session_id
  /\ \A i \in Requests :
       log[i].cookie = log[i].stored /\ log[i].stored # NoSession
  /\ \A i \in Logins : log[i].cookie = NoSession
  /\ pc = "req_recv" => log[Len(log)].cookie = session_id

C18_Witness ==
  /\ pc = "decode"
  /\ reqResult = Ok
  /\ Len(log) = 3
  /\ log[1].cookie = 1
  /\ log[3].cookie = 2 /\ session_id = 2

\* C19: if every transport operation eventually completes, every call of
\* `request` comes to an end (it returns, or aborts in an unwrap) and never
\* starts a third loop body, whatever the device answers.
C19_RequestTerminates ==
  /\ [](iter <= 2)
  /\ (pc = "loop" /\ iter = 0) ~> (pc \in {"idle", "decode", "panicked"})

C19_Witness ==
  /\ Returned
  /\ iter = 2
  /\ Len(log) = 4
  /\ log[1].status = 403 /\ Is2xx(log[2].status)
  /\ log[3].status = 403 /\ Is2xx(log[4].status)
  /\ result = ErrAuthentication

====
